---------------------------- MODULE Spec2Model ----------------------------
(***************************************************************************)
(* Permission inheritance of the Collection tree (kpi/models/collection.py) *)
(* over the ObjectPermission store, and the save and delete handlers of    *)
(* Asset (kpi/models/asset.py).                                            *)
(*                                                                         *)
(* The store is a bag of ObjectPermission rows; every handler of           *)
(* Collection is one action that runs the handler to its end, either its   *)
(* normal return or the exception that stops it.                           *)
(***************************************************************************)
EXTENDS Integers, FiniteSets, Sequences, Bags, TLC

\* ------------------------------------------------------------------ bounds

\* The most explicit (inherited = False) rows the store holds.
MaxExplicit == 2

\* The most AssetVersion rows one asset holds.
MaxVersions == 1

\* The most rows (survey sheet) a content holds.
MaxRows == 2

\* The most ObjectPermission rows the assets hold together.
MaxAssetRows == 3

\* Primary keys of the collections, in the order the database hands them out.
NodeSeq == <<"A", "B", "C">>
Nodes == {NodeSeq[i] : i \in 1..Len(NodeSeq)}

\* auth.User rows.
Users == {"U1", "U2"}

\* The owner each collection is created with: a child may have its parent's
\* owner or another one, whichever way the nodes are arranged.
OwnerOf == [n \in Nodes |-> IF n = "C" THEN "U2" ELSE "U1"]

\* SurveyAsset rows that CollectionManager.create may attach.
Assets == {"a1"}

None == "None"

\* Asset rows, and the one whose fields the callers edit.
AssetIds == {"x1", "x2"}
EditedAssets == {"x1"}

\* ASSET_TYPES
ASSET_TYPES == {"text", "question", "block", "survey", "empty"}

\* The states of content['settings']: no such key, a dictionary without
\* form_title, a dictionary with form_title.
Settings == {"absent", "untitled", "titled"}

\* The form_title a titled content carries, and the names callers give.
FormTitle == "Title"
Names == {"", "Title"}

\* Asset.content, as far as save reads it: the number of rows, whether the
\* summary of the content has a row_count at all, and the settings.
Contents ==
    {c \in [rows : 0..MaxRows, counted : BOOLEAN, settings : Settings] :
        ~c.counted => c.rows = 0}

\* The content of an asset that was given none.
EmptyContent == [rows |-> 0, counted |-> FALSE, settings |-> "absent"]

\* The codenames of the permissions assigned on assets.
ASSIGNABLE_PERMISSIONS == {"view_asset"}

\* ------------------------------------------------- auth.Permission rows

\* The Permission rows whose content type is Collection: Django's add_,
\* change_ and delete_, and the two that Collection.Meta declares.
CollectionPermissions ==
    { [pk |-> 1, app_label |-> "kpi", codename |-> "add_collection"],
      [pk |-> 2, app_label |-> "kpi", codename |-> "change_collection"],
      [pk |-> 3, app_label |-> "kpi", codename |-> "delete_collection"],
      [pk |-> 4, app_label |-> "kpi", codename |-> "view_collection"],
      [pk |-> 5, app_label |-> "kpi", codename |-> "share_collection"] }

\* The permission names has_perm is asked about: bare and with the app label.
PermNames == {"view_collection", "kpi.change_collection"}

\* The permission names assign_perm and remove_perm are called with.
AssignNames == {"view_collection"}

\* Names that are no permission of a collection: a codename no Permission
\* row has, and a name whose app label is not that of the object.
BadNames == {"no_such_perm", "auth.view_collection"}

\* perm_parse(perm, obj): the app label and the codename of a permission name;
\* a bare codename takes the app label of the object.
perm_parse(perm) ==
    CASE perm = "view_collection"       -> <<"kpi", "view_collection">>
      [] perm = "auth.view_collection"  -> <<"auth", "view_collection">>
      [] perm = "kpi.change_collection" -> <<"kpi", "change_collection">>
      [] perm = "change_collection"     -> <<"kpi", "change_collection">>
      [] perm = "kpi.view_collection"   -> <<"kpi", "view_collection">>
      [] OTHER                          -> <<"kpi", perm>>

\* perm_parse raises ValidationError: the name carries an app label that is
\* not the object's.
perm_parse_raises(perm) == perm_parse(perm)[1] # "kpi"

\* The rows Permission.objects.get(content_type__app_label=.., codename=..)
\* matches; with none it raises DoesNotExist.
PermLookup(app_label, codename) ==
    {p \in CollectionPermissions :
        p.app_label = app_label /\ p.codename = codename}

\* Permission.objects.get(content_type__app_label=.., codename=..).pk
PermPk(app_label, codename) ==
    (CHOOSE p \in CollectionPermissions :
        p.app_label = app_label /\ p.codename = codename).pk

\* The pks of the Permission rows with this codename (permission__codename=).
PksOfCodename(codename) ==
    {p.pk : p \in {q \in CollectionPermissions : q.codename = codename}}

\* ------------------------------------------------------------------ state

VARIABLES
    colls,          \* the Collection rows that exist
    parent,         \* Collection.parent (None for a root)
    children,       \* the tree order of each node's children (MPTT)
    owner,          \* Collection.owner
    survey_assets,  \* Collection.survey_assets: the attached SurveyAsset rows
    perms,          \* the ObjectPermission table: the bag of rows of each object
    recalc,         \* the _recalculate_inherited_perms call under way, run
                    \* statement by statement: its node and where it stands
    calls,          \* the assign_perm calls under way in the sessions, run
                    \* statement by statement: their arguments and where
                    \* they stand
    assets,         \* the Asset rows that exist
    asset_type,     \* Asset.asset_type of each Asset instance
    content,        \* Asset.content
    name,           \* Asset.name
    asset_versions, \* Asset.asset_versions: the AssetVersion rows, oldest first
    asset_perms     \* the ObjectPermission rows whose object is an Asset

assetvars == <<assets, asset_type, content, name, asset_versions, asset_perms>>

collvars ==
    <<colls, parent, children, owner, survey_assets, perms, recalc, calls>>

vars == <<collvars, assetvars>>

\* The database sessions that run assign_perm side by side.
Sessions == {"s1", "s2"}

\* A session that runs no assign_perm.
NoCall == [pc |-> "idle", node |-> None, user |-> None, pk |-> 0, deny |-> FALSE]

\* No _recalculate_inherited_perms call is under way statement by statement.
Idle == [node |-> None, pc |-> "idle"]

\* One ObjectPermission row.
Row(obj, user, perm, deny, inherited) ==
    [obj |-> obj, user |-> user, perm |-> perm, deny |-> deny,
     inherited |-> inherited]

\* ----------------------------------------------------------- bag helpers

\* The rows of bag b that lie in S, with their counts.
BagFilter(b, S) == [r \in DOMAIN b \cap S |-> b[r]]

\* ObjectPermission.objects.filter_for_object(obj)
filter_for_object(store, obj) == store[obj]

\* The inherited rows of obj, as a bag.
InheritedRows(store, obj) ==
    BagFilter(store[obj], {r \in DOMAIN store[obj] : r.inherited})

\* The explicit rows of obj, as a bag.
ExplicitRows(store, obj) ==
    BagFilter(store[obj], {r \in DOMAIN store[obj] : ~r.inherited})

\* The number of explicit rows in the whole store.
RECURSIVE NumExplicitOf(_, _)
NumExplicitOf(store, objs) ==
    IF objs = {} THEN 0
    ELSE LET o == CHOOSE x \in objs : TRUE
         IN  BagCardinality(ExplicitRows(store, o))
                 + NumExplicitOf(store, objs \ {o})

NumExplicit(store) == NumExplicitOf(store, DOMAIN store)


\* ------------------------------------------------------------- the tree

\* get_descendants(): the nodes below n in tree order (pre-order, each node
\* before its children, siblings in the order of the children list).
RECURSIVE PreOrderOf(_, _)
PreOrderOf(kids, seq) ==
    IF seq = << >> THEN << >>
    ELSE <<Head(seq)>> \o PreOrderOf(kids, kids[Head(seq)])
                       \o PreOrderOf(kids, Tail(seq))

get_descendants(kids, n) == PreOrderOf(kids, kids[n])

DescendantSet(kids, n) ==
    LET d == get_descendants(kids, n) IN {d[i] : i \in 1..Len(d)}

\* seq without its element x.
Without(seq, x) == SelectSeq(seq, LAMBDA y : y # x)

\* ------------------------------------------------ _effective_perms, has_perm

\* The keyword filters of a query: for each field, the values a row may have.
\* NoKwargs filters nothing.
NoKwargs ==
    [user_id |-> Users, permission |-> {p.pk : p \in CollectionPermissions},
     inherited |-> BOOLEAN]

\* A row passes the keyword filters.
Matches(r, kwargs) ==
    /\ r.user \in kwargs.user_id
    /\ r.perm \in kwargs.permission
    /\ r.inherited \in kwargs.inherited

\* _effective_perms(**kwargs): the (user_id, permission_id) pairs of the grant
\* rows of obj that pass the filter, less those of its deny rows that pass it.
_effective_perms(store, obj, kwargs) ==
    LET rows        == DOMAIN filter_for_object(store, obj)
        grant_perms == {<<r.user, r.perm>> :
                          r \in {x \in rows : ~x.deny /\ Matches(x, kwargs)}}
        deny_perms  == {<<r.user, r.perm>> :
                          r \in {x \in rows : x.deny /\ Matches(x, kwargs)}}
    IN  grant_perms \ deny_perms

\* _effective_perms() with the deny rows read with inherited=True only.
EffectivePerms_InheritedDenyOnly(store, obj) ==
    LET rows == DOMAIN filter_for_object(store, obj)
    IN  {<<r.user, r.perm>> : r \in {x \in rows : ~x.deny}}
        \ {<<r.user, r.perm>> : r \in {x \in rows : x.deny /\ x.inherited}}

\* _effective_perms() without kwargs.
EffectivePerms(store, obj) == _effective_perms(store, obj, NoKwargs)

\* has_perm that looks at the grant rows alone.
has_perm_GrantsOnly(store, obj, user, perm) ==
    \E r \in DOMAIN filter_for_object(store, obj) :
        /\ r.user = user /\ ~r.deny
        /\ r.perm \in PksOfCodename(perm_parse(perm)[2])

\* has_perm that counts the grant rows, not the distinct pairs.
has_perm_CountRows(store, obj, user, perm) ==
    LET rows == filter_for_object(store, obj)
        mine == {r \in DOMAIN rows :
                    /\ r.user = user
                    /\ r.perm \in PksOfCodename(perm_parse(perm)[2])}
    IN  /\ BagCardinality(BagFilter(rows, {r \in mine : ~r.deny})) = 1
        /\ {r \in mine : r.deny} = {}

\* has_perm(user_obj, perm)
has_perm(store, obj, user, perm) ==
    LET codename == perm_parse(perm)[2]
    IN  Cardinality(_effective_perms(store, obj,
            [NoKwargs EXCEPT !.user_id = {user},
                             !.permission = PksOfCodename(codename)])) = 1

\* ------------------------------------------- _recalculate_inherited_perms

\* The owner loop left out.
OwnerRows_Skipped(store, own, n) == {}

\* The owner loop with create() in the place of get_or_create: a row for
\* every Collection permission, whatever the node holds.
OwnerRows_Create(store, own, n) ==
    {Row(n, own[n], p.pk, FALSE, TRUE) : p \in CollectionPermissions}

\* The rows the owner loop creates: one inherited grant per Collection
\* permission for which get_or_create finds no inherited row of the owner.
OwnerRows(store, own, n) ==
    LET found == {r.perm : r \in {x \in DOMAIN filter_for_object(store, n) :
                                     x.user = own[n] /\ x.inherited}}
    IN  {Row(n, own[n], p.pk, FALSE, TRUE) :
            p \in {q \in CollectionPermissions : q.pk \notin found}}

\* The clean slate taken without the inherited=True filter: every row of n
\* is deleted.
DeleteInherited_All(store, n) == [store EXCEPT ![n] = EmptyBag]

\* "Start with a clean slate": the delete() of the inherited rows of n.
DeleteInherited(store, n) == [store EXCEPT ![n] = ExplicitRows(store, n)]

\* The loop run over the grant rows of the parent, its deny rows not taken
\* from them.
CopyFromParent_GrantRows(store, par, n) ==
    [store EXCEPT ![n] = store[n] (+) SetToBag(
        {Row(n, e[1], e[2], FALSE, TRUE) :
            e \in {<<r.user, r.perm>> :
                      r \in {x \in DOMAIN store[par[n]] : ~x.deny}}})]

\* The loop run over the rows of the parent in the place of its effective
\* permissions: every pair a row of the parent names is copied with the deny
\* value of the row.
CopyFromParent_WithDenies(store, par, n) ==
    [store EXCEPT ![n] = store[n] (+) SetToBag(
        {Row(n, r.user, r.perm, r.deny, TRUE) : r \in DOMAIN store[par[n]]})]

\* The loop over the parent's effective permissions: one inherited grant
\* row is created on n for each pair.
CopyFromParent(store, par, n) ==
    [store EXCEPT ![n] = store[n] (+) SetToBag(
        {Row(n, e[1], e[2], FALSE, TRUE) : e \in EffectivePerms(store, par[n])})]

\* The loop over the Permission rows of the content type: get_or_create of
\* the owner's inherited row for each.
CreateOwnerRows(store, own, n) ==
    [store EXCEPT ![n] = store[n] (+) SetToBag(OwnerRows(store, own, n))]

\* _recalculate_inherited_perms() without its clean slate: the inherited rows
\* of the node are kept and the parent's permissions are copied beside them.
_recalculate_inherited_perms_NoCleanSlate(store, par, own, n) ==
    LET copied == [store EXCEPT ![n] = store[n] (+) SetToBag(
                      {Row(n, e[1], e[2], FALSE, TRUE) :
                          e \in EffectivePerms(store, par[n])})]
    IN  IF par[n] = None THEN store
        ELSE [copied EXCEPT ![n] =
                 copied[n] (+) SetToBag(OwnerRows(copied, own, n))]

\* _recalculate_inherited_perms() whose owner loop runs for a root as well.
_recalculate_inherited_perms_RootOwner(store, par, own, n) ==
    IF par[n] = None
    THEN CreateOwnerRows(DeleteInherited(store, n), own, n)
    ELSE CreateOwnerRows(CopyFromParent(DeleteInherited(store, n), par, n),
                         own, n)

\* _recalculate_inherited_perms() of node n, under the parent and owner
\* fields par and own: the store it leaves.
_recalculate_inherited_perms(store, par, own, n) ==
    LET clean == DeleteInherited(store, n)
    IN  IF par[n] = None THEN clean
        ELSE CreateOwnerRows(CopyFromParent(clean, par, n), own, n)

\* ------------------------------------------------------------ the cascade

\* The loop over the descendants run from the last to the first: a node is
\* recalculated before the nodes above it.
RECURSIVE CascadeOver_LastFirst(_, _, _, _, _)
CascadeOver_LastFirst(store, par, own, sa, seq) ==
    IF seq = << >> THEN [store |-> store, err |-> "done"]
    ELSE LET d  == seq[Len(seq)]
             s1 == _recalculate_inherited_perms(store, par, own, d)
         IN  IF sa[d] # {} THEN [store |-> s1, err |-> "NameError"]
             ELSE CascadeOver_LastFirst(s1, par, own, sa,
                                        SubSeq(seq, 1, Len(seq) - 1))

\* The loop over the descendants: each is recalculated, then its survey
\* assets are visited.  The body of the asset loop names suvey_asset, which
\* is bound nowhere, so its first iteration raises NameError and ends the
\* handler.
RECURSIVE CascadeOver(_, _, _, _, _)
CascadeOver(store, par, own, sa, seq) ==
    IF seq = << >> THEN [store |-> store, err |-> "done"]
    ELSE LET d  == Head(seq)
             s1 == _recalculate_inherited_perms(store, par, own, d)
         IN  IF sa[d] # {} THEN [store |-> s1, err |-> "NameError"]
             ELSE CascadeOver(s1, par, own, sa, Tail(seq))

\* The cascade with the node itself recalculated first.
Cascade_WithSelf(store, par, kids, own, sa, n) ==
    IF sa[n] # {}
    THEN [store |-> _recalculate_inherited_perms(store, par, own, n),
          err |-> "NameError"]
    ELSE CascadeOver(_recalculate_inherited_perms(store, par, own, n),
                     par, own, sa, get_descendants(kids, n))

\* The two loops that end save, assign_perm and remove_perm: the node's own
\* survey assets, then every descendant and its survey assets.
Cascade(store, par, kids, own, sa, n) ==
    IF sa[n] # {} THEN [store |-> store, err |-> "NameError"]
    ELSE CascadeOver(store, par, own, sa, get_descendants(kids, n))


\* --------------------------------------------------------------- handlers

\* What a handler leaves: the store, and the exception that ended it.
Outcome(store, err) == [store |-> store, err |-> err]

\* Collection.save() of node n, whose parent field is par[n]: the node is
\* recalculated, then the cascade runs.
save(store, par, kids, own, sa, n) ==
    Cascade(_recalculate_inherited_perms(store, par, own, n),
            par, kids, own, sa, n)

\* The lookup of assign_perm with inherited=True in the place of
\* inherited=False: it never finds a directly applied row.
AlreadyApplied_Inherited(store, n, user, pk, deny) ==
    \E r \in DOMAIN filter_for_object(store, n) :
        /\ r.user = user /\ r.inherited
        /\ r.perm = pk /\ r.deny = deny

\* assign_perm finds the row it is asked for already applied directly.
AlreadyApplied(store, n, user, pk, deny) ==
    \E r \in DOMAIN filter_for_object(store, n) :
        /\ r.user = user /\ ~r.inherited
        /\ r.perm = pk /\ r.deny = deny

\* assign_perm that creates the new row beside a contradictory one.
AssignedRows_KeepContradiction(store, n, user, pk, deny) ==
    [store EXCEPT ![n] = store[n] (+) SetToBag({Row(n, user, pk, deny, FALSE)})]

\* assign_perm after its lookups, up to the new row: the contradictory
\* explicit rows are deleted and the new row is created.
AssignedRows(store, n, user, pk, deny) ==
    [store EXCEPT ![n] =
        BagFilter(store[n], {r \in DOMAIN store[n] :
            ~(r.user = user /\ r.perm = pk /\ r.deny = ~deny /\ ~r.inherited)})
        (+) SetToBag({Row(n, user, pk, deny, FALSE)})]

\* assign_perm without its early return.
assign_perm_NoEarlyReturn(store, par, kids, own, sa, n, user, perm, deny) ==
    IF perm_parse_raises(perm) THEN Outcome(store, "ValidationError")
    ELSE IF PermLookup(perm_parse(perm)[1], perm_parse(perm)[2]) = {}
    THEN Outcome(store, "DoesNotExist")
    ELSE Cascade(AssignedRows(store, n, user,
                     PermPk(perm_parse(perm)[1], perm_parse(perm)[2]), deny),
                 par, kids, own, sa, n)

\* assign_perm that deletes the contradictory rows, by codename, before it
\* looks the permission up.
assign_perm_LateLookup(store, par, kids, own, sa, n, user, perm, deny) ==
    IF PermLookup(perm_parse(perm)[1], perm_parse(perm)[2]) = {}
    THEN Outcome([store EXCEPT ![n] =
                     BagFilter(store[n], {r \in DOMAIN store[n] :
                         ~(/\ r.user = user /\ ~r.inherited /\ r.deny = ~deny
                           /\ r.perm \in PksOfCodename(perm_parse(perm)[2]))})],
                 "DoesNotExist")
    ELSE Cascade(AssignedRows(store, n, user,
                     PermPk(perm_parse(perm)[1], perm_parse(perm)[2]), deny),
                 par, kids, own, sa, n)

\* assign_perm(user_obj, perm, deny)
assign_perm(store, par, kids, own, sa, n, user, perm, deny) ==
    LET app_label == perm_parse(perm)[1]
        codename  == perm_parse(perm)[2]
        pk        == PermPk(app_label, codename)
    IN  IF perm_parse_raises(perm) THEN Outcome(store, "ValidationError")
        ELSE IF PermLookup(app_label, codename) = {}
        THEN Outcome(store, "DoesNotExist")
        ELSE IF AlreadyApplied(store, n, user, pk, deny)
        THEN Outcome(store, "already")
        ELSE Cascade(AssignedRows(store, n, user, pk, deny),
                     par, kids, own, sa, n)

\* remove_perm whose delete() does not filter on deny.
RemovedRows_AnyDeny(store, n, user, codename, deny) ==
    [store EXCEPT ![n] =
        BagFilter(store[n], {r \in DOMAIN store[n] :
            ~(/\ r.user = user /\ r.perm \in PksOfCodename(codename)
              /\ ~r.inherited)})]

\* remove_perm up to its delete(): the explicit rows of the user with the
\* codename and the deny value are deleted.
RemovedRows(store, n, user, codename, deny) ==
    [store EXCEPT ![n] =
        BagFilter(store[n], {r \in DOMAIN store[n] :
            ~(/\ r.user = user /\ r.perm \in PksOfCodename(codename)
              /\ r.deny = deny /\ ~r.inherited)})]

\* remove_perm(user_obj, perm, deny)
remove_perm(store, par, kids, own, sa, n, user, perm, deny) ==
    Cascade(RemovedRows(store, n, user, perm_parse(perm)[2], deny),
            par, kids, own, sa, n)

\* ---------------------------------------------------------------- actions

\* The state before any collection exists.
Init ==
    /\ colls = {}
    /\ parent = [n \in Nodes |-> None]
    /\ children = [n \in Nodes |-> << >>]
    /\ owner = [n \in Nodes |-> None]
    /\ survey_assets = [n \in Nodes |-> {}]
    /\ perms = [o \in Nodes |-> EmptyBag]
    /\ recalc = Idle
    /\ calls = [s \in Sessions |-> NoCall]
    /\ assets = {}
    /\ asset_type = [a \in AssetIds |-> "text"]
    /\ content = [a \in AssetIds |-> EmptyContent]
    /\ name = [a \in AssetIds |-> ""]
    /\ asset_versions = [a \in AssetIds |-> << >>]
    /\ asset_perms = [a \in AssetIds |-> EmptyBag]

\* The SurveyAsset rows attached to no collection yet.
FreeAssets == Assets \ UNION {survey_assets[n] : n \in Nodes}

\* CollectionManager.create(parent=p, owner=o, survey_assets=as): the row is
\* created and saved (it has no survey assets and no descendants yet), then
\* the survey assets are created with the collection as theirs.
Create(p, o, as) ==
    /\ Cardinality(colls) < Len(NodeSeq)
    /\ p \in colls \cup {None}
    /\ o = OwnerOf[NodeSeq[Cardinality(colls) + 1]]
    /\ as \subseteq FreeAssets
    /\ LET n    == NodeSeq[Cardinality(colls) + 1]
           par  == [parent EXCEPT ![n] = p]
           kids == IF p = None THEN children
                   ELSE [children EXCEPT ![p] = Append(@, n)]
           own  == [owner EXCEPT ![n] = o]
           out  == save(perms, par, kids, own, survey_assets, n)
       IN  /\ colls' = colls \cup {n}
           /\ parent' = par
           /\ children' = kids
           /\ owner' = own
           /\ perms' = out.store
           /\ survey_assets' = [survey_assets EXCEPT ![n] = as]
    /\ UNCHANGED <<recalc, calls, assetvars>>

\* node.parent = p; node.save(): MPTT moves the node to the end of its new
\* parent's children and refuses a parent inside the node's own subtree.
Save(n, p) ==
    /\ n \in colls
    /\ p \in (colls \cup {None}) \ ({n} \cup DescendantSet(children, n))
    /\ LET par  == [parent EXCEPT ![n] = p]
           kids == IF p = parent[n] THEN children
                   ELSE [m \in Nodes |->
                            IF m = p THEN Append(children[m], n)
                            ELSE Without(children[m], n)]
           out  == save(perms, par, kids, owner, survey_assets, n)
       IN  /\ parent' = par
           /\ children' = kids
           /\ perms' = out.store
    /\ UNCHANGED <<colls, owner, survey_assets, recalc, calls, assetvars>>

\* node.assign_perm(user, perm, deny)
AssignPerm(n, user, perm, deny) ==
    /\ n \in colls
    /\ LET out == assign_perm(perms, parent, children, owner, survey_assets,
                              n, user, perm, deny)
       IN  /\ \/ NumExplicit(perms) < MaxExplicit
               \/ \E r \in DOMAIN ExplicitRows(perms, n) :
                      r.user = user /\ r.perm \in PksOfCodename(perm_parse(perm)[2])
           /\ perms' = out.store
    /\ UNCHANGED <<colls, parent, children, owner, survey_assets, recalc,
                   calls, assetvars>>

\* node.remove_perm(user, perm, deny)
RemovePerm(n, user, perm, deny) ==
    /\ n \in colls
    /\ LET out == remove_perm(perms, parent, children, owner, survey_assets,
                              n, user, perm, deny)
       IN  /\ perms' = out.store
    /\ UNCHANGED <<colls, parent, children, owner, survey_assets, recalc,
                   calls, assetvars>>

\* node._recalculate_inherited_perms(), called on its own.
Recalculate(n) ==
    /\ n \in colls
    /\ perms' = _recalculate_inherited_perms(perms, parent, owner, n)
    /\ UNCHANGED <<colls, parent, children, owner, survey_assets, recalc,
                   calls, assetvars>>

\* _recalculate_inherited_perms() of node n run statement by statement, each
\* statement committed on its own (the function opens no transaction): the
\* delete(), and the return when there is no parent.
RecalcDelete(n) ==
    /\ recalc = Idle
    /\ n \in colls
    /\ perms' = DeleteInherited(perms, n)
    /\ recalc' = IF parent[n] = None THEN Idle
                 ELSE [node |-> n, pc |-> "inherit"]
    /\ UNCHANGED <<colls, parent, children, owner, survey_assets, calls, assetvars>>

\* The loop that copies the parent's effective permissions.  The stores
\* between two of its create() calls are left out: they add views to what a
\* reader can see, and take none away.
RecalcInherit ==
    /\ recalc.pc = "inherit"
    /\ perms' = CopyFromParent(perms, parent, recalc.node)
    /\ recalc' = [recalc EXCEPT !.pc = "owner"]
    /\ UNCHANGED <<colls, parent, children, owner, survey_assets, calls, assetvars>>

\* The loop that creates the owner's rows, and the return.
RecalcOwner ==
    /\ recalc.pc = "owner"
    /\ perms' = CreateOwnerRows(perms, owner, recalc.node)
    /\ recalc' = Idle
    /\ UNCHANGED <<colls, parent, children, owner, survey_assets, calls, assetvars>>

Next ==
    \/ \E p \in Nodes \cup {None}, o \in Users, as \in SUBSET Assets :
           Create(p, o, as)
    \/ \E n \in Nodes, p \in Nodes \cup {None} : Save(n, p)
    \/ \E n \in Nodes, u \in Users, perm \in AssignNames \cup BadNames,
          deny \in BOOLEAN :
           AssignPerm(n, u, perm, deny)
    \/ \E n \in Nodes, u \in Users, perm \in AssignNames, deny \in BOOLEAN :
           RemovePerm(n, u, perm, deny)
    \/ \E n \in Nodes : Recalculate(n)

Spec == Init /\ [][Next]_vars

\* The handlers one at a time (a single writer), with a recalculation that
\* other sessions can read between its statements.
StepNext ==
    \/ recalc = Idle /\ Next
    \/ \E n \in Nodes : RecalcDelete(n)
    \/ RecalcInherit
    \/ RecalcOwner

StepSpec == Init /\ [][StepNext]_vars

\* The owners the other way round: one user owns the first collection and
\* the other user every later one, so that a user can own no node of a whole
\* subtree.
OwnerOfBelow == [n \in Nodes |-> IF n = "A" THEN "U2" ELSE "U1"]

\* One user owns every collection, and the other none.
OwnerOfSole == [n \in Nodes |-> "U1"]

\* CollectionManager.create(parent=p, owner=o, survey_assets=as), where the
\* callers give the owners of owners.
CreateAs(owners, p, o, as) ==
    /\ Cardinality(colls) < Len(NodeSeq)
    /\ p \in colls \cup {None}
    /\ o = owners[NodeSeq[Cardinality(colls) + 1]]
    /\ as \subseteq FreeAssets
    /\ LET n    == NodeSeq[Cardinality(colls) + 1]
           par  == [parent EXCEPT ![n] = p]
           kids == IF p = None THEN children
                   ELSE [children EXCEPT ![p] = Append(@, n)]
           own  == [owner EXCEPT ![n] = o]
           out  == save(perms, par, kids, own, survey_assets, n)
       IN  /\ colls' = colls \cup {n}
           /\ parent' = par
           /\ children' = kids
           /\ owner' = own
           /\ perms' = out.store
           /\ survey_assets' = [survey_assets EXCEPT ![n] = as]
    /\ UNCHANGED <<recalc, calls, assetvars>>

CreateBelow(p, o, as) == CreateAs(OwnerOfBelow, p, o, as)

CreateSole(p, o, as) == CreateAs(OwnerOfSole, p, o, as)

\* The handlers of Collection, one call at a time and with the names of
\* Collection permissions, on trees whose owners are those of OwnerOfBelow.
BelowNext ==
    \/ \E p \in Nodes \cup {None}, o \in Users, as \in SUBSET Assets :
           CreateBelow(p, o, as)
    \/ \E n \in Nodes, p \in Nodes \cup {None} : Save(n, p)
    \/ \E n \in Nodes, u \in Users, perm \in AssignNames, deny \in BOOLEAN :
           AssignPerm(n, u, perm, deny)
    \/ \E n \in Nodes, u \in Users, perm \in AssignNames, deny \in BOOLEAN :
           RemovePerm(n, u, perm, deny)
    \/ \E n \in Nodes : Recalculate(n)

BelowSpec == Init /\ [][BelowNext]_vars

\* The same on trees with a single owner.
SoleNext ==
    \/ \E p \in Nodes \cup {None}, o \in Users, as \in SUBSET Assets :
           CreateSole(p, o, as)
    \/ \E n \in Nodes, p \in Nodes \cup {None} : Save(n, p)
    \/ \E n \in Nodes, u \in Users, perm \in AssignNames, deny \in BOOLEAN :
           AssignPerm(n, u, perm, deny)
    \/ \E n \in Nodes, u \in Users, perm \in AssignNames, deny \in BOOLEAN :
           RemovePerm(n, u, perm, deny)
    \/ \E n \in Nodes : Recalculate(n)

SoleSpec == Init /\ [][SoleNext]_vars

\* ------------------------------------- assign_perm, statement by statement

\* The delete() of assign_perm: the explicit rows of the user and the
\* permission with the other deny value.
DeleteContradictory(store, n, user, pk, deny) ==
    [store EXCEPT ![n] =
        BagFilter(store[n], {r \in DOMAIN store[n] :
            ~(r.user = user /\ r.perm = pk /\ r.deny = ~deny /\ ~r.inherited)})]

\* The create() of assign_perm: one more explicit row.
CreateRow(store, n, user, pk, deny) ==
    [store EXCEPT ![n] = store[n] (+) SetToBag({Row(n, user, pk, deny, FALSE)})]

\* The sessions whose assign_perm is past its lookup for an applied row and
\* has its create() ahead.
Creating == {s \in Sessions : calls[s].pc \in {"filter", "delete", "create"}}

\* Session s calls node.assign_perm(user, perm, deny): perm_parse and
\* Permission.objects.get, which pass for the name of a Collection
\* permission.  The function opens no transaction, so each of its queries
\* is committed on its own and other sessions run between them.
CallBegin(s, n, user, perm, deny) ==
    /\ calls[s].pc = "idle"
    /\ n \in colls
    /\ ~perm_parse_raises(perm)
    /\ PermLookup(perm_parse(perm)[1], perm_parse(perm)[2]) # {}
    /\ NumExplicit(perms) + Cardinality(Creating) < MaxExplicit
    /\ calls' = [calls EXCEPT ![s] =
                    [pc |-> "filter", node |-> n, user |-> user,
                     pk |-> PermPk(perm_parse(perm)[1], perm_parse(perm)[2]),
                     deny |-> deny]]
    /\ UNCHANGED <<colls, parent, children, owner, survey_assets, perms,
                   recalc, assetvars>>

\* The lookup for the row already applied, and the early return.
CallFilter(s) ==
    /\ calls[s].pc = "filter"
    /\ calls' = [calls EXCEPT ![s] =
                    IF AlreadyApplied(perms, @.node, @.user, @.pk, @.deny)
                    THEN NoCall ELSE [@ EXCEPT !.pc = "delete"]]
    /\ UNCHANGED <<colls, parent, children, owner, survey_assets, perms,
                   recalc, assetvars>>

\* The delete() of the contradictory rows.
CallDelete(s) ==
    /\ calls[s].pc = "delete"
    /\ perms' = DeleteContradictory(perms, calls[s].node, calls[s].user,
                                    calls[s].pk, calls[s].deny)
    /\ calls' = [calls EXCEPT ![s].pc = "create"]
    /\ UNCHANGED <<colls, parent, children, owner, survey_assets, recalc,
                   assetvars>>

\* The create() of the new row.
CallCreate(s) ==
    /\ calls[s].pc = "create"
    /\ perms' = CreateRow(perms, calls[s].node, calls[s].user,
                          calls[s].pk, calls[s].deny)
    /\ calls' = [calls EXCEPT ![s].pc = "cascade"]
    /\ UNCHANGED <<colls, parent, children, owner, survey_assets, recalc,
                   assetvars>>

\* The create() refused: were the ObjectPermission table to declare its
\* rows unique, the create() of a row that is there would raise
\* IntegrityError and end the call.
CallCreateRefused(s) ==
    /\ calls[s].pc = "create"
    /\ Row(calls[s].node, calls[s].user, calls[s].pk, calls[s].deny, FALSE)
           \in DOMAIN perms[calls[s].node]
    /\ calls' = [calls EXCEPT ![s] = NoCall]
    /\ UNCHANGED <<colls, parent, children, owner, survey_assets, perms,
                   recalc, assetvars>>

\* The two loops that end assign_perm, and the return.  The loops write
\* inherited rows alone; they are run in one step.
CallCascade(s) ==
    /\ calls[s].pc = "cascade"
    /\ perms' = Cascade(perms, parent, children, owner, survey_assets,
                        calls[s].node).store
    /\ calls' = [calls EXCEPT ![s] = NoCall]
    /\ UNCHANGED <<colls, parent, children, owner, survey_assets, recalc,
                   assetvars>>

\* Collections are created, and two sessions call assign_perm side by side.
ConcNext ==
    \/ \E p \in Nodes \cup {None}, o \in Users, as \in SUBSET Assets :
           Create(p, o, as)
    \/ \E s \in Sessions, n \in Nodes, u \in Users, perm \in AssignNames,
          deny \in BOOLEAN :
           CallBegin(s, n, u, perm, deny)
    \/ \E s \in Sessions :
           \/ CallFilter(s)
           \/ CallDelete(s)
           \/ CallCreate(s)
           \/ CallCreateRefused(s)
           \/ CallCascade(s)

ConcSpec == Init /\ [][ConcNext]_vars

\* ------------------------------------------------------------ Asset.save

\* An Asset instance: the fields that save reads and writes.
Instance(a) ==
    [asset_type |-> asset_type[a], content |-> content[a], name |-> name[a]]

\* _populate_summary(): the summary of the content.  row_count is missing
\* from it when the content has none to count.
_populate_summary(c) == [has_row_count |-> c.counted, row_count |-> c.rows]

\* The end of _adjust_content_on_save(): the settings of an asset that is no
\* survey are deleted; otherwise form_title is popped from the settings, if
\* there are any, and becomes the name when it is there.
_adjust_content_on_save(rec) ==
    IF rec.asset_type # "survey" /\ rec.content.settings # "absent"
    THEN [rec EXCEPT !.content.settings = "absent"]
    ELSE IF rec.content.settings = "titled"
    THEN [rec EXCEPT !.content.settings = "untitled", !.name = FormTitle]
    ELSE rec

\* The inference that takes every kind for a question or a block.
InferredType_AnyKind(type, summary) ==
    IF summary.has_row_count /\ summary.row_count = 1 THEN "question"
    ELSE IF summary.has_row_count /\ summary.row_count > 1 THEN "block"
    ELSE type

\* "infer asset_type only between question and block": row_count is
\* summary.get('row_count'), None when the key is missing, and None is
\* neither == 1 nor > 1.
InferredType(type, summary) ==
    IF type \in {"question", "block"}
    THEN IF summary.has_row_count /\ summary.row_count = 1 THEN "question"
         ELSE IF summary.has_row_count /\ summary.row_count > 1 THEN "block"
         ELSE type
    ELSE type

\* The version is created whatever create_version says.
CreateVersion_Always(versions, rec, create_version) ==
    Append(versions, [name |-> rec.name, version_content |-> rec.content,
                      deployed |-> FALSE])

\* "if _create_version: self.asset_versions.create(...)"
CreateVersion(versions, rec, create_version) ==
    IF create_version
    THEN Append(versions, [name |-> rec.name, version_content |-> rec.content,
                           deployed |-> FALSE])
    ELSE versions

\* Asset.save(adjust_content=.., create_version=..) of an instance with these
\* versions: the instance and the versions it leaves.
Asset_save(rec, versions, adjust_content, create_version) ==
    LET adjusted == IF adjust_content THEN _adjust_content_on_save(rec)
                    ELSE rec
        summary  == _populate_summary(adjusted.content)
        saved    == [adjusted EXCEPT
                        !.asset_type = InferredType(adjusted.asset_type, summary)]
    IN  [rec |-> saved,
         versions |-> CreateVersion(versions, saved, create_version)]

\* post_delete_asset: the rows of the store whose object is the instance
\* are deleted.
post_delete_asset_ExplicitOnly(store, instance) ==
    [store EXCEPT ![instance] = InheritedRows(store, instance)]

post_delete_asset(store, instance) ==
    [store EXCEPT ![instance] =
        BagFilter(store[instance],
                  DOMAIN store[instance]
                      \ DOMAIN filter_for_object(store, instance))]

\* The number of rows in a store.
RECURSIVE NumRowsOf(_, _)
NumRowsOf(store, objs) ==
    IF objs = {} THEN 0
    ELSE LET o == CHOOSE x \in objs : TRUE
         IN  BagCardinality(store[o]) + NumRowsOf(store, objs \ {o})

\* ---------------------------------------------------------- asset actions

\* asset.asset_type = t
SetAssetType(a, t) ==
    /\ asset_type' = [asset_type EXCEPT ![a] = t]
    /\ UNCHANGED <<collvars, assets, content, name, asset_versions, asset_perms>>

\* asset.content = c
SetContent(a, c) ==
    /\ content' = [content EXCEPT ![a] = c]
    /\ UNCHANGED <<collvars, assets, asset_type, name, asset_versions,
                   asset_perms>>

\* asset.name = nm
SetName(a, nm) ==
    /\ name' = [name EXCEPT ![a] = nm]
    /\ UNCHANGED <<collvars, assets, asset_type, content, asset_versions,
                   asset_perms>>

\* asset.save(adjust_content=.., create_version=..): the first save of an
\* instance creates its row.
AssetSave(a, adjust_content, create_version) ==
    /\ create_version => Len(asset_versions[a]) < MaxVersions
    /\ LET out == Asset_save(Instance(a), asset_versions[a],
                             adjust_content, create_version)
       IN  /\ assets' = assets \cup {a}
           /\ asset_type' = [asset_type EXCEPT ![a] = out.rec.asset_type]
           /\ content' = [content EXCEPT ![a] = out.rec.content]
           /\ name' = [name EXCEPT ![a] = out.rec.name]
           /\ asset_versions' = [asset_versions EXCEPT ![a] = out.versions]
    /\ UNCHANGED <<collvars, asset_perms>>

\* ObjectPermission.objects.create(content_object=asset, ...): a row on an
\* asset, explicit or inherited, grant or deny.
AssetPermCreate(a, user, codename, deny, inherited) ==
    /\ a \in assets
    /\ NumRowsOf(asset_perms, AssetIds) < MaxAssetRows
    /\ asset_perms' = [asset_perms EXCEPT ![a] =
           @ (+) SetToBag({Row(a, user, codename, deny, inherited)})]
    /\ UNCHANGED <<collvars, assets, asset_type, content, name, asset_versions>>

\* asset.delete(): the row goes, its versions with it, and the post_delete
\* signal runs post_delete_asset.
AssetDelete(a) ==
    /\ a \in assets
    /\ assets' = assets \ {a}
    /\ asset_versions' = [asset_versions EXCEPT ![a] = << >>]
    /\ asset_perms' = post_delete_asset(asset_perms, a)
    /\ UNCHANGED <<collvars, asset_type, content, name>>

\* The edits and saves of an asset.
AssetNext ==
    \/ \E a \in EditedAssets, t \in ASSET_TYPES : SetAssetType(a, t)
    \/ \E a \in EditedAssets, c \in Contents : SetContent(a, c)
    \/ \E a \in EditedAssets, nm \in Names : SetName(a, nm)
    \/ \E a \in EditedAssets, adjust_content \in BOOLEAN,
          create_version \in BOOLEAN :
           AssetSave(a, adjust_content, create_version)

AssetSpec == Init /\ [][AssetNext]_vars

\* Assets saved as they are created, given permission rows, and deleted.
DeleteNext ==
    \/ \E a \in AssetIds, adjust_content \in BOOLEAN,
          create_version \in BOOLEAN :
           AssetSave(a, adjust_content, create_version)
    \/ \E a \in AssetIds, u \in Users, codename \in ASSIGNABLE_PERMISSIONS,
          deny \in BOOLEAN, inherited \in BOOLEAN :
           AssetPermCreate(a, u, codename, deny, inherited)
    \/ \E a \in AssetIds : AssetDelete(a)

DeleteSpec == Init /\ [][DeleteNext]_vars

\* ------------------------------------------------------- shared vocabulary

\* The (user, permission) pairs of the inherited rows of node d.
InheritedPairs(store, d) ==
    {<<r.user, r.perm>> : r \in DOMAIN InheritedRows(store, d)}

\* The (user, permission) pairs of the explicit deny rows of node d.
ExplicitDenyPairs(store, d) ==
    {<<r.user, r.perm>> : r \in {x \in DOMAIN ExplicitRows(store, d) : x.deny}}

\* Every permission of the Collection type, paired with the owner of d.
OwnerPairs(d) == {<<owner[d], p.pk>> : p \in CollectionPermissions}

\* The inherited rows of d are what its parent's effective permissions and
\* its owner call for: one grant row per pair, and no other inherited row.
ReflectsParent(store, d) ==
    /\ \A r \in DOMAIN InheritedRows(store, d) : ~r.deny /\ store[d][r] = 1
    /\ InheritedPairs(store, d) =
           IF parent[d] = None THEN {}
           ELSE EffectivePerms(store, parent[d]) \cup OwnerPairs(d)

\* Node n holds a row for (user, pk) with these flags.
HasRow(store, n, user, pk, deny, inherited) ==
    Row(n, user, pk, deny, inherited) \in DOMAIN filter_for_object(store, n)

\* ------------------------------------------------------------------- C1

\* The pk that assign_perm resolves a permission name to.
PkOf(perm) == PermPk(perm_parse(perm)[1], perm_parse(perm)[2])

\* C1: once assign_perm on node N has run past its early return (to its end
\* or to the exception that stops it), every descendant of N holds the
\* inherited rows that its parent's effective permissions and its owner
\* call for, whether or not survey assets are attached to N or to its
\* descendants.
C1_CascadeComplete ==
    [][\A n \in colls, u \in Users, perm \in AssignNames, deny \in BOOLEAN :
        ( /\ ~AlreadyApplied(perms, n, u, PkOf(perm), deny)
          /\ AssignPerm(n, u, perm, deny) )
        => \A d \in DescendantSet(children, n) : ReflectsParent(perms', d)]_vars

\* ------------------------------------------------------------------- C2

\* The effective permissions of n that rest on inherited rows, read as the
\* query _effective_perms(inherited=True).
EffectiveOfInherited(store, n) ==
    _effective_perms(store, n, [NoKwargs EXCEPT !.inherited = {TRUE}])

\* The same, read as the effective pairs of n for which n holds an inherited
\* row.
EffectiveAmongInherited(store, n) ==
    EffectivePerms(store, n) \cap InheritedPairs(store, n)

\* The store that _recalculate_inherited_perms on node n leaves.
Recalculated(n) == _recalculate_inherited_perms(perms, parent, owner, n)

\* C2 as stated: right after _recalculate_inherited_perms on a node N with
\* parent P, the effective permissions of N restricted to inherited rows
\* are effective(P) less the pairs N explicitly denies, plus every pair of
\* N's owner (under either reading of the restriction).
C2_AsStated ==
    \A n \in colls : parent[n] # None =>
        LET after   == Recalculated(n)
            claimed == (EffectivePerms(after, parent[n])
                            \ ExplicitDenyPairs(after, n)) \cup OwnerPairs(n)
        IN  \/ EffectiveOfInherited(after, n) = claimed
            \/ EffectiveAmongInherited(after, n) = claimed

\* C2 amended: right after _recalculate_inherited_perms on a node N with
\* parent P, the inherited rows of N carry exactly effective(P) plus every
\* pair of N's owner, and the effective pairs of N among them are that set
\* less every pair N explicitly denies, the owner's pairs included.
C2_RecalculatedFromParent ==
    \A n \in colls : parent[n] # None =>
        LET after == Recalculated(n)
            full  == EffectivePerms(after, parent[n]) \cup OwnerPairs(n)
        IN  /\ EffectiveOfInherited(after, n) = full
            /\ EffectiveAmongInherited(after, n) =
                   full \ ExplicitDenyPairs(after, n)

\* A node with a parent is as _recalculate_inherited_perms leaves it; it
\* explicitly denies a pair that its parent grants, and its parent grants
\* pairs to other users than its owner.
C2_Witness ==
    \E n \in colls :
        /\ parent[n] # None
        /\ Recalculated(n) = perms
        /\ ExplicitDenyPairs(perms, n) \cap EffectivePerms(perms, parent[n]) # {}
        /\ \E e \in EffectivePerms(perms, parent[n]) : e[1] # owner[n]

\* ------------------------------------------------------------------- C3

\* C3: the effective permissions of a node are exactly the pairs with at
\* least one grant row and no deny row on the node, whatever the rows'
\* inherited flags and however many grant rows there are.
C3_GrantMinusDeny ==
    \A n \in colls :
        EffectivePerms(perms, n) =
            {e \in Users \X {p.pk : p \in CollectionPermissions} :
                /\ \E i \in BOOLEAN : HasRow(perms, n, e[1], e[2], FALSE, i)
                /\ ~\E i \in BOOLEAN : HasRow(perms, n, e[1], e[2], TRUE, i)}

\* A node holds an inherited grant and an explicit deny for one pair, which
\* is not among its effective permissions.
C3_Witness ==
    \E n \in colls, u \in Users, p \in CollectionPermissions :
        /\ HasRow(perms, n, u, p.pk, FALSE, TRUE)
        /\ HasRow(perms, n, u, p.pk, TRUE, FALSE)
        /\ <<u, p.pk>> \notin EffectivePerms(perms, n)

\* ------------------------------------------------------------------- C4

\* C4: in every reachable state and for every node, root or not, a second
\* _recalculate_inherited_perms right after a first leaves the inherited
\* rows of the node as the first left them, count and content.
C4_RecalculateIdempotent ==
    \A n \in colls :
        LET once  == Recalculated(n)
            twice == _recalculate_inherited_perms(once, parent, owner, n)
        IN  InheritedRows(twice, n) = InheritedRows(once, n)

\* The first call rewrites the inherited rows of a node with a parent, and
\* leaves it some.
C4_Witness ==
    \E n \in colls :
        /\ parent[n] # None
        /\ InheritedRows(perms, n) # EmptyBag
        /\ InheritedRows(Recalculated(n), n) # InheritedRows(perms, n)
        /\ InheritedRows(Recalculated(n), n) # EmptyBag

\* ------------------------------------------------------------------- C5

\* C5: no node ever holds an explicit grant and an explicit deny for the
\* same user and permission.
C5_GrantDenyExclusive ==
    \A n \in colls, u \in Users, p \in CollectionPermissions :
        ~(/\ HasRow(perms, n, u, p.pk, FALSE, FALSE)
          /\ HasRow(perms, n, u, p.pk, TRUE, FALSE))

\* A node holds an explicit deny beside the inherited grant for the same
\* pair, and assign_perm with deny=False puts an explicit grant in the place
\* of the deny.
C5_Witness ==
    \E n \in colls, u \in Users, perm \in AssignNames :
        /\ HasRow(perms, n, u, PkOf(perm), TRUE, FALSE)
        /\ HasRow(perms, n, u, PkOf(perm), FALSE, TRUE)
        /\ LET out == assign_perm(perms, parent, children, owner,
                                  survey_assets, n, u, perm, FALSE)
           IN  /\ HasRow(out.store, n, u, PkOf(perm), FALSE, FALSE)
               /\ ~HasRow(out.store, n, u, PkOf(perm), TRUE, FALSE)

\* ------------------------------------------------------------------- C6

\* User u holds no row on node n.
NoRows(store, n, u) ==
    \A r \in DOMAIN filter_for_object(store, n) : r.user # u

\* The rows of user u on node n are all among rows.
OnlyRows(store, n, u, rows) ==
    \A r \in DOMAIN filter_for_object(store, n) : r.user = u => r \in rows

\* C6: for a collection a with child b and a user u who does not own b and
\* holds no row on a or b, has_perm(b, u, perm) is true once assign_perm(a,
\* u, perm) has run; and it is false once remove_perm(a, u, perm) has run,
\* when u's rows were that grant on a and what b inherited from it.
C6_GrantThenRevoke ==
    [][\A a \in colls, b \in colls, u \in Users, perm \in AssignNames :
        (parent[b] = a /\ owner[b] # u) =>
            /\ ( /\ NoRows(perms, a, u) /\ NoRows(perms, b, u)
                 /\ AssignPerm(a, u, perm, FALSE) )
               => has_perm(perms', b, u, perm)
            /\ ( /\ HasRow(perms, a, u, PkOf(perm), FALSE, FALSE)
                 /\ OnlyRows(perms, a, u, {Row(a, u, PkOf(perm), FALSE, FALSE)})
                 /\ OnlyRows(perms, b, u, {Row(b, u, PkOf(perm), FALSE, TRUE)})
                 /\ RemovePerm(a, u, perm, FALSE) )
               => ~has_perm(perms', b, u, perm)]_vars

\* ------------------------------------------------------------------- C7

\* C7: while a node holds an explicit deny for a user and a permission,
\* has_perm is false for them on that node: right after the assign_perm
\* that denies it, and after every later recalculation of the node,
\* whatever grant the node inherits from its parent.
C7_DenyOverridesInherited ==
    \A b \in colls, u \in Users, perm \in PermNames :
        HasRow(perms, b, u, PkOf(perm), TRUE, FALSE) =>
            /\ ~has_perm(perms, b, u, perm)
            /\ ~has_perm(Recalculated(b), b, u, perm)

\* A node inherits a grant from its parent; assign_perm with deny=True puts
\* the explicit deny beside it, and a recalculation of the node after that
\* brings the inherited grant back beside the deny.
C7_Witness ==
    \E b \in colls, u \in Users, perm \in AssignNames :
        /\ parent[b] # None
        /\ HasRow(perms, b, u, PkOf(perm), FALSE, TRUE)
        /\ <<u, PkOf(perm)>> \in EffectivePerms(perms, parent[b])
        /\ has_perm(perms, b, u, perm)
        /\ LET denied == assign_perm(perms, parent, children, owner,
                                     survey_assets, b, u, perm, TRUE).store
               again  == _recalculate_inherited_perms(denied, parent, owner, b)
           IN  /\ HasRow(denied, b, u, PkOf(perm), TRUE, FALSE)
               /\ ~has_perm(denied, b, u, perm)
               /\ HasRow(again, b, u, PkOf(perm), FALSE, TRUE)
               /\ ~has_perm(again, b, u, perm)

\* ------------------------------------------------------------------- C8

\* C8: once a root collection has been created and saved, has_perm is true
\* for its owner and every permission, with no assign_perm for the owner.
C8_RootOwnerCoverage ==
    [][\A o \in Users, as \in SUBSET Assets :
        Create(None, o, as) =>
            \A n \in colls' \ colls, perm \in PermNames :
                has_perm(perms', n, o, perm)]_vars

\* ------------------------------------------------------------------- C9

\* The grant rows of node n for user u and the permissions with a codename.
GrantRowsFor(store, n, u, codename) ==
    {r \in DOMAIN filter_for_object(store, n) :
        r.user = u /\ r.perm \in PksOfCodename(codename) /\ ~r.deny}

\* The deny rows of node n for user u and the permissions with a codename.
DenyRowsFor(store, n, u, codename) ==
    {r \in DOMAIN filter_for_object(store, n) :
        r.user = u /\ r.perm \in PksOfCodename(codename) /\ r.deny}

\* C9: has_perm is true exactly when the effective permissions of the node,
\* filtered to the user and the permission, hold exactly one pair; it is
\* false when the user holds a grant and a deny for the permission, and true
\* when the user holds several grant rows for it and no deny.
C9_HasPermExactlyOne ==
    \A n \in colls, u \in Users, perm \in PermNames :
        LET codename == perm_parse(perm)[2]
            grants   == GrantRowsFor(perms, n, u, codename)
            denies   == DenyRowsFor(perms, n, u, codename)
        IN  /\ has_perm(perms, n, u, perm) <=>
                   Cardinality({e \in EffectivePerms(perms, n) :
                       e[1] = u /\ e[2] \in PksOfCodename(codename)}) = 1
            /\ (grants # {} /\ denies # {}) => ~has_perm(perms, n, u, perm)
            /\ (grants # {} /\ denies = {}) => has_perm(perms, n, u, perm)

\* A user holds an inherited and an explicit grant, and no deny, for one
\* permission on a node, and has_perm is true.
C9_Witness ==
    \E n \in colls, u \in Users, perm \in PermNames :
        /\ Cardinality(GrantRowsFor(perms, n, u, perm_parse(perm)[2])) = 2
        /\ DenyRowsFor(perms, n, u, perm_parse(perm)[2]) = {}
        /\ has_perm(perms, n, u, perm)

\* ------------------------------------------------------------------ C10

\* C10: assign_perm called when the node already holds the identical
\* explicit row returns at once: the whole store, the inherited rows of
\* every descendant included, is as before, and no cascade has run.
C10_AssignNoOp ==
    \A n \in colls, u \in Users, perm \in AssignNames, deny \in BOOLEAN :
        HasRow(perms, n, u, PkOf(perm), deny, FALSE) =>
            LET out == assign_perm(perms, parent, children, owner,
                                   survey_assets, n, u, perm, deny)
            IN  out.store = perms /\ out.err = "already"

\* A node holds the row assign_perm is called with, the cascade from the
\* node would have rewritten the rows of a descendant, and assign_perm
\* leaves the store as it is.
C10_Witness ==
    \E n \in colls, u \in Users, perm \in AssignNames, deny \in BOOLEAN :
        /\ HasRow(perms, n, u, PkOf(perm), deny, FALSE)
        /\ Cascade(perms, parent, children, owner, survey_assets, n).store
               # perms
        /\ assign_perm(perms, parent, children, owner, survey_assets,
                       n, u, perm, deny).store = perms

\* ------------------------------------------------------------------ C11

\* Between two stores, the rows of node n that differ in count are explicit
\* rows of user u for permission pk.
OnlyPairChanged(before, after, n, u, pk) ==
    \A x \in DOMAIN before[n] \cup DOMAIN after[n] :
        CopiesIn(x, before[n]) # CopiesIn(x, after[n]) =>
            x.user = u /\ x.perm = pk /\ ~x.inherited

\* C11: assign_perm and remove_perm on node N leave the inherited rows of N
\* as they were, count and content, and change no row of N other than the
\* explicit rows of the given user and permission.
C11_NodeNotRecalculated ==
    \A n \in colls, u \in Users, perm \in AssignNames, deny \in BOOLEAN :
        LET assigned == assign_perm(perms, parent, children, owner,
                                    survey_assets, n, u, perm, deny).store
            removed  == remove_perm(perms, parent, children, owner,
                                    survey_assets, n, u, perm, deny).store
        IN  /\ InheritedRows(assigned, n) = InheritedRows(perms, n)
            /\ InheritedRows(removed, n) = InheritedRows(perms, n)
            /\ OnlyPairChanged(perms, assigned, n, u, PkOf(perm))
            /\ OnlyPairChanged(perms, removed, n, u, PkOf(perm))

\* The inherited rows of a node with a parent are not what a recalculation
\* would leave, and assign_perm and remove_perm on the node each change its
\* explicit rows and leave the inherited ones.
C11_Witness ==
    \E n \in colls, u \in Users, perm \in AssignNames :
        /\ parent[n] # None
        /\ InheritedRows(Recalculated(n), n) # InheritedRows(perms, n)
        /\ HasRow(perms, n, u, PkOf(perm), TRUE, FALSE)
        /\ LET assigned == assign_perm(perms, parent, children, owner,
                                       survey_assets, n, u, perm, FALSE).store
               removed  == remove_perm(perms, parent, children, owner,
                                       survey_assets, n, u, perm, TRUE).store
           IN  /\ ExplicitRows(assigned, n) # ExplicitRows(perms, n)
               /\ ExplicitRows(removed, n) # ExplicitRows(perms, n)
               /\ InheritedRows(assigned, n) = InheritedRows(perms, n)
               /\ InheritedRows(removed, n) = InheritedRows(perms, n)

\* ------------------------------------------------------------------ C12

\* Bag b without any copy of row x.
BagWithout(b, x) == BagFilter(b, DOMAIN b \ {x})

\* C12: remove_perm(N, user, perm, deny) takes from the rows of N the
\* explicit row (user, perm, deny) and no other row; without such a row the
\* rows of N stay as they are.  It then runs the cascade from N: the rows
\* outside the subtree of N stay, and the handler ends as assign_perm on N
\* ends when it runs its cascade.
C12_RemoveExact ==
    \A n \in colls, u \in Users, perm \in AssignNames, deny \in BOOLEAN :
        LET row == Row(n, u, PkOf(perm), deny, FALSE)
            out == remove_perm(perms, parent, children, owner,
                               survey_assets, n, u, perm, deny)
        IN  /\ out.store[n] = BagWithout(perms[n], row)
            /\ ~HasRow(perms, n, u, PkOf(perm), deny, FALSE) =>
                   out.store[n] = perms[n]
            /\ \A m \in Nodes \ ({n} \cup DescendantSet(children, n)) :
                   out.store[m] = perms[m]
            /\ ~AlreadyApplied(perms, n, u, PkOf(perm), deny) =>
                   assign_perm(perms, parent, children, owner,
                               survey_assets, n, u, perm, deny).err = out.err

\* A node holds an explicit row of one user, which remove_perm is called
\* with, and an explicit row of another user; remove_perm deletes the one,
\* keeps the other, and its cascade rewrites the rows of a descendant;
\* called with the opposite deny value it deletes nothing.
C12_Witness ==
    \E n \in colls, u \in Users, v \in Users, perm \in AssignNames,
       deny \in BOOLEAN :
        /\ u # v
        /\ HasRow(perms, n, u, PkOf(perm), deny, FALSE)
        /\ \E r \in DOMAIN ExplicitRows(perms, n) : r.user = v
        /\ LET out   == remove_perm(perms, parent, children, owner,
                                    survey_assets, n, u, perm, deny)
               other == remove_perm(perms, parent, children, owner,
                                    survey_assets, n, u, perm, ~deny)
           IN  /\ ~HasRow(out.store, n, u, PkOf(perm), deny, FALSE)
               /\ \E r \in DOMAIN ExplicitRows(out.store, n) : r.user = v
               /\ \E d \in DescendantSet(children, n) :
                      out.store[d] # perms[d]
               /\ ExplicitRows(other.store, n) = ExplicitRows(perms, n)

\* ------------------------------------------------------------------ C13

\* C13: once save has run on a node N whose parent field was changed to
\* another node or to None, the inherited rows of N are those its new
\* parent's effective permissions and its owner call for, and so are those
\* of every descendant of N against its own parent, whether or not survey
\* assets are attached in the subtree.
C13_ReparentRecalculatesSubtree ==
    [][\A n \in colls, p \in colls \cup {None} :
        (p # parent[n] /\ Save(n, p)) =>
            /\ \A r \in DOMAIN InheritedRows(perms', n) :
                   ~r.deny /\ perms'[n][r] = 1
            /\ InheritedPairs(perms', n) =
                   IF p = None THEN {}
                   ELSE EffectivePerms(perms', p) \cup OwnerPairs(n)
            /\ \A d \in DescendantSet(children', n) :
                   ReflectsParent(perms', d)]_vars

\* ------------------------------------------------------------------ C14

\* The store once the recalculation under way has run to its end.
Finished ==
    IF recalc.pc = "inherit"
    THEN CreateOwnerRows(CopyFromParent(perms, parent, recalc.node),
                         owner, recalc.node)
    ELSE CreateOwnerRows(perms, owner, recalc.node)

\* C14: while _recalculate_inherited_perms is under way on a node, what
\* another session reads of the node (its inherited rows, its effective
\* permissions, has_perm) is never the store with the inherited rows deleted
\* and not yet created again: it is what the finished call leaves.
C14_RecalculateAtomic ==
    recalc # Idle =>
        LET n == recalc.node
        IN  /\ InheritedRows(perms, n) = InheritedRows(Finished, n)
            /\ EffectivePerms(perms, n) = EffectivePerms(Finished, n)
            /\ \A u \in Users, perm \in PermNames :
                   has_perm(perms, n, u, perm) = has_perm(Finished, n, u, perm)

\* ------------------------------------------------------------------ C15

\* The cascade from node n ends in an exception.
CascadeFails(n) ==
    Cascade(perms, parent, children, owner, survey_assets, n).err # "done"

\* C15: when the cascade of save, assign_perm or remove_perm on node N
\* meets a recalculation that fails, the descendants of N are recalculated
\* all the same: once the handler has ended, each holds the inherited rows
\* that its parent's effective permissions and its owner call for.
C15_CascadeFailureIsolated ==
    [][\A n \in colls :
        ( /\ CascadeFails(n)
          /\ \/ \E p \in colls \cup {None} : Save(n, p)
             \/ \E u \in Users, perm \in AssignNames, deny \in BOOLEAN :
                    /\ ~AlreadyApplied(perms, n, u, PkOf(perm), deny)
                    /\ AssignPerm(n, u, perm, deny)
             \/ \E u \in Users, perm \in AssignNames, deny \in BOOLEAN :
                    RemovePerm(n, u, perm, deny) )
        => \A d \in DescendantSet(children, n) : ReflectsParent(perms', d)]_vars

\* ------------------------------------------------------------------ C18

\* C18: assign_perm called with a name that perm_parse refuses or that no
\* Permission row answers to ends in an exception and leaves every row of
\* the store as it was: no row created, none deleted, no cascade.
C18_InvalidNameLeavesStore ==
    \A n \in colls, u \in Users, perm \in BadNames, deny \in BOOLEAN :
        LET out == assign_perm(perms, parent, children, owner, survey_assets,
                               n, u, perm, deny)
        IN  /\ out.store = perms
            /\ out.err \in {"ValidationError", "DoesNotExist"}

\* A node holds an explicit deny that the same call with a good name would
\* replace, and the cascade from the node would rewrite a descendant; with
\* either bad name assign_perm leaves the store as it is.
C18_Witness ==
    \E n \in colls, u \in Users :
        /\ HasRow(perms, n, u, PkOf("view_collection"), TRUE, FALSE)
        /\ Cascade(perms, parent, children, owner, survey_assets, n).store
               # perms
        /\ assign_perm(perms, parent, children, owner, survey_assets,
                       n, u, "view_collection", FALSE).store # perms
        /\ \A perm \in BadNames :
               assign_perm(perms, parent, children, owner, survey_assets,
                           n, u, perm, FALSE).store = perms

\* ------------------------------------------------------------------ C20

SavedType(a, adjust_content, create_version) ==
    Asset_save(Instance(a), asset_versions[a],
               adjust_content, create_version).rec.asset_type

\* C16: save of an asset whose asset_type is question or block sets it to
\* question when the row count of the content summary is 1, to block when
\* it is greater than 1, and leaves it as it is when the row count is 0 or
\* missing; save of a text, survey or empty asset leaves asset_type as it
\* is, whatever the row count.
C16_KindInference ==
    \A a \in EditedAssets, adjust_content \in BOOLEAN, create_version \in BOOLEAN :
        LET before == asset_type[a]
            after  == SavedType(a, adjust_content, create_version)
            rows   == content[a].rows
            some   == content[a].counted
        IN  /\ before \in {"question", "block"} =>
                   /\ (some /\ rows = 1) => after = "question"
                   /\ (some /\ rows > 1) => after = "block"
                   /\ (~some \/ rows = 0) => after = before
            /\ before \in {"text", "survey", "empty"} => after = before

\* An asset was saved as a question with one row; its content now has more
\* rows and save makes it a block.  Set to survey instead, save would leave
\* it a survey.
C16_Witness ==
    \E a \in assets :
        /\ asset_type[a] = "question"
        /\ content[a].counted /\ content[a].rows > 1
        /\ asset_versions[a] # << >>
        /\ asset_versions[a][Len(asset_versions[a])].version_content.rows = 1
        /\ SavedType(a, TRUE, TRUE) = "block"
        /\ Asset_save([Instance(a) EXCEPT !.asset_type = "survey"],
                      asset_versions[a], TRUE, TRUE).rec.asset_type = "survey"

\* ------------------------------------------------------------------ C17

\* Sequence s begins with sequence t.
BeginsWith(s, t) == Len(s) >= Len(t) /\ SubSeq(s, 1, Len(t)) = t

\* C17: a save with create_version left true appends to the versions of the
\* asset exactly one AssetVersion, with the name and the content the save
\* leaves on the asset and deployed = False; a save with create_version =
\* False appends none; either way the versions there were stay, in their
\* order and unaltered.
C17_OneVersionPerSave ==
    \A a \in EditedAssets, adjust_content \in BOOLEAN, create_version \in BOOLEAN :
        LET out == Asset_save(Instance(a), asset_versions[a],
                              adjust_content, create_version)
        IN  /\ create_version =>
                   out.versions = Append(asset_versions[a],
                       [name |-> out.rec.name,
                        version_content |-> out.rec.content,
                        deployed |-> FALSE])
            /\ ~create_version => out.versions = asset_versions[a]
            /\ BeginsWith(out.versions, asset_versions[a])

\* A survey holds a version whose name save took from the form_title of
\* its content, and its fields were edited since; a save appends a second
\* version, with the edited fields, behind the first, and a save that opts
\* out appends none.
C17_Witness ==
    \E a \in assets :
        LET v   == asset_versions[a]
            out == Asset_save(Instance(a), v, TRUE, TRUE)
        IN  /\ Len(v) = 1
            /\ v[1].name = FormTitle
            /\ v[1].version_content.settings = "untitled"
            /\ v[1].version_content # content[a] /\ v[1].name # name[a]
            /\ Len(out.versions) = 2
            /\ out.versions[1] = v[1]
            /\ out.versions[2] # v[1]
            /\ Asset_save(Instance(a), v, TRUE, FALSE).versions = v

\* ------------------------------------------------------------------ C19

\* C19: deleting an asset deletes every ObjectPermission row whose object
\* is that asset, explicit or inherited, grant or deny, and no row of
\* another asset; no row is left for an asset that does not exist.
C19_DeleteRemovesOwnRows ==
    /\ \A a \in assets :
           LET after == post_delete_asset(asset_perms, a)
           IN  /\ after[a] = EmptyBag
               /\ \A b \in AssetIds \ {a} : after[b] = asset_perms[b]
    /\ \A a \in AssetIds \ assets : asset_perms[a] = EmptyBag

\* One asset holds an explicit deny and an inherited grant, another asset
\* holds a row; deleting the first leaves it no row and the other its row.
C19_Witness ==
    \E a \in assets, b \in assets :
        /\ a # b
        /\ \E r \in DOMAIN asset_perms[a] : r.deny /\ ~r.inherited
        /\ \E r \in DOMAIN asset_perms[a] : ~r.deny /\ r.inherited
        /\ asset_perms[b] # EmptyBag
        /\ post_delete_asset(asset_perms, a)[a] = EmptyBag
        /\ post_delete_asset(asset_perms, a)[b] = asset_perms[b]

\* ------------------------------------------------------------------ C21

\* The number of inherited rows node n holds for (user, pk), grants and
\* denies together.
InheritedCount(store, n, user, pk) ==
    CopiesIn(Row(n, user, pk, FALSE, TRUE), store[n])
        + CopiesIn(Row(n, user, pk, TRUE, TRUE), store[n])

\* C21: after _recalculate_inherited_perms on a node N with a parent, N
\* holds exactly one inherited grant row for its owner and each permission
\* of the Collection type, whether or not the parent's effective
\* permissions held that pair, and no (user, permission) pair has more than
\* one inherited row on N.
C21_OwnerRowsOnce ==
    \A n \in colls : parent[n] # None =>
        LET after == Recalculated(n)
        IN  /\ \A p \in CollectionPermissions :
                   CopiesIn(Row(n, owner[n], p.pk, FALSE, TRUE), after[n]) = 1
            /\ \A u \in Users, p \in CollectionPermissions :
                   InheritedCount(after, n, u, p.pk) <= 1

\* A node with a parent is as _recalculate_inherited_perms leaves it; its
\* parent's effective permissions hold one pair of the node's owner and
\* lack another, and the node holds a single inherited row for each.
C21_Witness ==
    \E n \in colls, p, q \in CollectionPermissions :
        /\ parent[n] # None
        /\ Recalculated(n) = perms
        /\ <<owner[n], p.pk>> \in EffectivePerms(perms, parent[n])
        /\ <<owner[n], q.pk>> \notin EffectivePerms(perms, parent[n])
        /\ InheritedCount(perms, n, owner[n], p.pk) = 1
        /\ InheritedCount(perms, n, owner[n], q.pk) = 1

\* ------------------------------------------------------------------ C22

\* The descendants of n that the cascade of a handler on n has recalculated
\* when it ends: all of them, or, when it stops, those up to the one whose
\* survey assets stop it.
Processed(kids, sa, n) ==
    LET d     == get_descendants(kids, n)
        stops == {i \in 1..Len(d) : sa[d[i]] # {}}
    IN  IF sa[n] # {} THEN << >>
        ELSE IF stops = {} THEN d
        ELSE SubSeq(d, 1, CHOOSE i \in stops : \A j \in stops : i <= j)

\* ReflectsParent under the parent fields par: the inherited rows of d are
\* what the effective permissions of par[d] and the owner of d call for.
ReflectsParentUnder(store, par, d) ==
    /\ \A r \in DOMAIN InheritedRows(store, d) : ~r.deny /\ store[d][r] = 1
    /\ InheritedPairs(store, d) =
           IF par[d] = None THEN {}
           ELSE EffectivePerms(store, par[d]) \cup OwnerPairs(d)

\* The children lists after node.parent = p; node.save(): as Save leaves
\* them.
MovedChildren(n, p) ==
    IF p = parent[n] THEN children
    ELSE [m \in Nodes |-> IF m = p THEN Append(children[m], n)
                          ELSE Without(children[m], n)]

\* In the store a handler on n leaves, under the tree (par, kids): every
\* descendant the cascade has recalculated comes after its parent, and
\* holds the inherited rows its parent and its owner call for.
PrefixConsistent(store, par, kids, n) ==
    LET done == Processed(kids, survey_assets, n)
    IN  \A i \in 1..Len(done) :
            /\ \/ par[done[i]] = n
               \/ \E j \in 1..(i - 1) : done[j] = par[done[i]]
            /\ ReflectsParentUnder(store, par, done[i])

\* C22: the cascade of save, assign_perm and remove_perm recalculates a
\* descendant after its parent (the node of the call, or a descendant
\* recalculated earlier), and wherever the cascade stops, every node it has
\* recalculated holds the inherited rows that its parent's effective
\* permissions, as they are then, and its owner call for.
C22_PrefixConsistent ==
    \A n \in colls :
        /\ \A p \in (colls \cup {None}) \ ({n} \cup DescendantSet(children, n)) :
               LET par  == [parent EXCEPT ![n] = p]
                   kids == MovedChildren(n, p)
               IN  PrefixConsistent(
                       save(perms, par, kids, owner, survey_assets, n).store,
                       par, kids, n)
        /\ \A u \in Users, perm \in AssignNames, deny \in BOOLEAN :
               /\ ~AlreadyApplied(perms, n, u, PkOf(perm), deny) =>
                      PrefixConsistent(
                          assign_perm(perms, parent, children, owner,
                                      survey_assets, n, u, perm, deny).store,
                          parent, children, n)
               /\ PrefixConsistent(
                      remove_perm(perms, parent, children, owner,
                                  survey_assets, n, u, perm, deny).store,
                      parent, children, n)

\* A node holds an explicit grant; the first of its descendants has a
\* survey asset and holds the inherited row of that grant, as its parent
\* calls for, and a descendant after it, where the cascade did not come,
\* holds none.
C22_Witness ==
    \E n \in colls : \E r \in DOMAIN ExplicitRows(perms, n) :
        LET d == get_descendants(children, n)
        IN  /\ Len(d) = 2
            /\ ~r.deny
            /\ survey_assets[n] = {} /\ survey_assets[d[1]] # {}
            /\ ReflectsParent(perms, d[1])
            /\ HasRow(perms, d[1], r.user, r.perm, FALSE, TRUE)
            /\ ~HasRow(perms, d[2], r.user, r.perm, FALSE, TRUE)
            /\ ~ReflectsParent(perms, d[2])

\* ------------------------------------------------------------------ C23

\* The explicit rows of node m are the same in both stores.
SameExplicit(before, after, m) ==
    ExplicitRows(after, m) = ExplicitRows(before, m)

\* The explicit rows of node n differ between the stores in the rows of
\* gone, which the second store lacks, and the rows of new, which it has
\* once, and in nothing else.
ExplicitDiffers(before, after, n, gone, new) ==
    \A x \in DOMAIN ExplicitRows(before, n) \cup DOMAIN ExplicitRows(after, n)
             \cup gone \cup new :
        CopiesIn(x, ExplicitRows(after, n)) =
            IF x \in new THEN 1
            ELSE IF x \in gone THEN 0
            ELSE CopiesIn(x, ExplicitRows(before, n))

\* C23: _recalculate_inherited_perms on a node, and save, leave the
\* explicit rows of every node as they were; assign_perm and remove_perm
\* leave the explicit rows of every node but their own as they were, and
\* of their own node assign_perm deletes the explicit row of the opposite
\* deny value alone and creates the row it is asked for, and remove_perm
\* deletes the row it is asked for alone.
C23_ExplicitRowsKept ==
    \A n \in colls :
        /\ \A m \in Nodes : SameExplicit(perms, Recalculated(n), m)
        /\ \A p \in (colls \cup {None}) \ ({n} \cup DescendantSet(children, n)) :
               LET out == save(perms, [parent EXCEPT ![n] = p],
                               MovedChildren(n, p), owner, survey_assets, n)
               IN  \A m \in Nodes : SameExplicit(perms, out.store, m)
        /\ \A u \in Users, perm \in AssignNames, deny \in BOOLEAN :
               LET assigned == assign_perm(perms, parent, children, owner,
                                           survey_assets, n, u, perm, deny)
                   removed  == remove_perm(perms, parent, children, owner,
                                           survey_assets, n, u, perm, deny)
               IN  /\ \A m \in Nodes \ {n} :
                          /\ SameExplicit(perms, assigned.store, m)
                          /\ SameExplicit(perms, removed.store, m)
                   /\ ExplicitDiffers(perms, assigned.store, n,
                          {Row(n, u, PkOf(perm), ~deny, FALSE)},
                          {Row(n, u, PkOf(perm), deny, FALSE)})
                   /\ ExplicitDiffers(perms, removed.store, n,
                          {Row(n, u, PkOf(perm), deny, FALSE)}, {})

\* A node holds an explicit row and so does one of its descendants;
\* assign_perm of the opposite deny value on the node replaces the row, its
\* cascade rewrites the inherited rows of the descendant, and the explicit
\* rows of the descendant stay.
C23_Witness ==
    \E n \in colls, u \in Users, perm \in AssignNames, deny \in BOOLEAN :
        \E d \in DescendantSet(children, n) :
            LET out == assign_perm(perms, parent, children, owner,
                                   survey_assets, n, u, perm, deny).store
            IN  /\ HasRow(perms, n, u, PkOf(perm), ~deny, FALSE)
                /\ ExplicitRows(perms, d) # EmptyBag
                /\ InheritedRows(out, d) # InheritedRows(perms, d)
                /\ ExplicitRows(out, d) = ExplicitRows(perms, d)
                /\ ~HasRow(out, n, u, PkOf(perm), ~deny, FALSE)

\* ------------------------------------------------------------------ C24

\* C24: in every state that save, assign_perm, remove_perm and
\* _recalculate_inherited_perms reach, called one after the other, a node
\* holds at most one explicit row for a (user, permission, deny value).
C24_ExplicitRowsUnique ==
    \A n \in Nodes : \A r \in DOMAIN ExplicitRows(perms, n) : perms[n][r] = 1

\* A node holds explicit rows of both users, each once, and assign_perm
\* called again for one of them returns early.
C24_Witness ==
    \E n \in colls, perm \in AssignNames, deny \in BOOLEAN :
        /\ \A u \in Users :
               \E d \in BOOLEAN :
                   CopiesIn(Row(n, u, PkOf(perm), d, FALSE), perms[n]) = 1
        /\ \E u \in Users :
               /\ HasRow(perms, n, u, PkOf(perm), deny, FALSE)
               /\ assign_perm(perms, parent, children, owner, survey_assets,
                              n, u, perm, deny).err = "already"

\* ------------------------------------------------------------------ C25

\* No assign_perm call is under way in any session.
AllReturned == \A s \in Sessions : calls[s].pc = "idle"

\* C25: once the assign_perm calls that ran side by side have all returned,
\* no node holds an explicit grant and an explicit deny for one (user,
\* permission) pair, and no node holds an explicit row twice.
C25_InterleavedExclusive ==
    AllReturned =>
        \A n \in Nodes :
            /\ \A u \in Users, p \in CollectionPermissions :
                   ~(/\ HasRow(perms, n, u, p.pk, FALSE, FALSE)
                     /\ HasRow(perms, n, u, p.pk, TRUE, FALSE))
            /\ \A r \in DOMAIN ExplicitRows(perms, n) : perms[n][r] = 1

\* ------------------------------------------------------------------ C26

\* C26: in every reachable state every inherited row is a grant: a deny row
\* is never a copy from a parent, and is explicit.
C26_InheritedAreGrants ==
    \A n \in Nodes : \A r \in DOMAIN perms[n] : r.inherited => ~r.deny

\* A node is as _recalculate_inherited_perms leaves it under a parent that
\* holds an explicit deny: the node holds inherited rows, and no row for
\* the pair its parent denies.
C26_Witness ==
    \E n \in colls, u \in Users, p \in CollectionPermissions :
        /\ parent[n] # None
        /\ HasRow(perms, parent[n], u, p.pk, TRUE, FALSE)
        /\ Recalculated(n) = perms
        /\ InheritedRows(perms, n) # EmptyBag
        /\ \A d, i \in BOOLEAN : ~HasRow(perms, n, u, p.pk, d, i)

\* ------------------------------------------------------------------ C27

\* The nodes on the way from the children of b down to its descendant d, d
\* included.
RECURSIVE PathBelow(_, _)
PathBelow(b, d) ==
    IF d = b \/ d = None THEN {} ELSE {d} \cup PathBelow(b, parent[d])

\* C27: once assign_perm(B, U, perm, deny=True) has stored its row and run
\* its cascade to the end, a descendant D of B holds no inherited grant for
\* (U, perm) and has_perm(D, U, perm) is false, wherever U owns no node on
\* the way from B's children to D and holds no explicit grant on any of
\* them, whatever the ancestors of B grant.
C27_DenyBlocksSubtree ==
    \A b \in colls, u \in Users, perm \in AssignNames :
        LET out == assign_perm(perms, parent, children, owner, survey_assets,
                               b, u, perm, TRUE)
        IN  out.err = "done" =>
                \A d \in DescendantSet(children, b) :
                    (\A m \in PathBelow(b, d) :
                        /\ owner[m] # u
                        /\ ~HasRow(out.store, m, u, PkOf(perm), FALSE, FALSE))
                    => /\ ~HasRow(out.store, d, u, PkOf(perm), FALSE, TRUE)
                       /\ ~has_perm(out.store, d, u, perm)

\* The parent of a node B grants a user a permission, and a child of B that
\* the user does not own holds the inherited grant; assign_perm with
\* deny=True on B runs to its end and the child holds the grant no more.
C27_Witness ==
    \E b \in colls, u \in Users, perm \in AssignNames :
        \E d \in DescendantSet(children, b) :
            LET out == assign_perm(perms, parent, children, owner,
                                   survey_assets, b, u, perm, TRUE)
            IN  /\ parent[b] # None
                /\ <<u, PkOf(perm)>> \in EffectivePerms(perms, parent[b])
                /\ owner[d] # u
                /\ HasRow(perms, d, u, PkOf(perm), FALSE, TRUE)
                /\ has_perm(perms, d, u, perm)
                /\ out.err = "done"
                /\ <<u, PkOf(perm)>> \in EffectivePerms(out.store, parent[b])
                /\ ~HasRow(out.store, d, u, PkOf(perm), FALSE, TRUE)
                /\ ~has_perm(out.store, d, u, perm)

=============================================================================
